---- MODULE Spec2Model ----
(***************************************************************************)
(* Model of src/clean_data.py: the cleaning and integration script for the *)
(* world population and GDP datasets.                                      *)
(*                                                                         *)
(* Strings are sequences of one-character tokens, so that strip, lower,    *)
(* isdigit, trim, regexp_replace and the casts are computed character by   *)
(* character.  A nullable cell is <<>> (null / None) or <<v>>.             *)
(* A DataFrame is a record [cols, rows]: the column names in order and the *)
(* rows as tuples of cells aligned with cols.                              *)
(***************************************************************************)
EXTENDS Integers, Sequences, FiniteSets, TLC

VARIABLES csvs, i, pop_df, gdp_df, joined, pc, summary, arg, res

vars == <<csvs, i, pop_df, gdp_df, joined, pc, summary, arg, res>>

(***************************************************************************)
(* Bounds of the model and constants of the program.                       *)
(***************************************************************************)
MaxFiles == 2
MaxCols == 3
MaxLen == 3
MaxRows == 2
MaxTail == 2
SampleLimit == 100
Threshold == 1000000

(***************************************************************************)
(* Nullable values.                                                        *)
(***************************************************************************)
Null == <<>>

Some(v) == <<v>>

IsNull(c) == c = <<>>

Get(c) == c[1]

(***************************************************************************)
(* Characters and the string functions of Python and Spark SQL.            *)
(***************************************************************************)
TAB == "\t"

BSL == "\\"

\* A digit for str.isdigit() that is not one of 0..9 (SUPERSCRIPT TWO).
SUP2 == "sup2"

AsciiDigits == {"0", "1", "2", "3", "4", "5", "6", "7", "8", "9"}

DigitVal(c) ==
    CASE c = "0" -> 0 [] c = "1" -> 1 [] c = "2" -> 2 [] c = "3" -> 3
      [] c = "4" -> 4 [] c = "5" -> 5 [] c = "6" -> 6 [] c = "7" -> 7
      [] c = "8" -> 8 [] c = "9" -> 9

\* One character of str.isdigit(): decimal digits and the other Unicode digits.
IsDigitChar(c) == c \in AsciiDigits \cup {SUP2}

\* One character of str.lower(), which Spark's case-insensitive resolver
\* applies as well.
LowerChar(c) ==
    CASE c = "A" -> "a" [] c = "B" -> "b" [] c = "C" -> "c" [] c = "D" -> "d"
      [] c = "E" -> "e" [] c = "F" -> "f" [] c = "G" -> "g" [] c = "H" -> "h"
      [] c = "I" -> "i" [] c = "J" -> "j" [] c = "K" -> "k" [] c = "L" -> "l"
      [] c = "M" -> "m" [] c = "N" -> "n" [] c = "O" -> "o" [] c = "P" -> "p"
      [] c = "Q" -> "q" [] c = "R" -> "r" [] c = "S" -> "s" [] c = "T" -> "t"
      [] c = "U" -> "u" [] c = "V" -> "v" [] c = "W" -> "w" [] c = "X" -> "x"
      [] c = "Y" -> "y" [] c = "Z" -> "z" [] OTHER -> c

Lower(s) == [k \in 1..Len(s) |-> LowerChar(s[k])]

RECURSIVE LStripSet(_, _)
LStripSet(s, drop) ==
    IF s # <<>> /\ Head(s) \in drop THEN LStripSet(Tail(s), drop) ELSE s

RECURSIVE RStripSet(_, _)
RStripSet(s, drop) ==
    IF s # <<>> /\ s[Len(s)] \in drop
    THEN RStripSet(SubSeq(s, 1, Len(s) - 1), drop)
    ELSE s

\* str.strip() and the regex class \s: the whitespace characters.
Whitespace == {" ", TAB}

IsSpace(c) == c \in Whitespace

\* Python's str.strip(): leading and trailing whitespace removed.
Strip(s) == RStripSet(LStripSet(s, Whitespace), Whitespace)

\* Python's str.isdigit(): non-empty and every character a digit.
IsDigit(s) == s # <<>> /\ \A k \in 1..Len(s) : IsDigitChar(s[k])

\* Python's `sub in s` for strings.
Contains(s, sub) ==
    \E k \in 0..(Len(s) - Len(sub)) : SubSeq(s, k + 1, k + Len(sub)) = sub

\* Spark SQL trim(col): the space character removed from both ends; null
\* stays null.
trim(c) ==
    IF IsNull(c) THEN Null
    ELSE Some(RStripSet(LStripSet(Get(c), {" "}), {" "}))

\* The length of the match of the regex passed at line 100 starting at the
\* head of s.  The Python literal r"\\s+" is the four characters \ \ s +,
\* which the regex engine reads as: one backslash, then one or more "s".
RECURSIVE CountS(_)
CountS(s) == IF s # <<>> /\ Head(s) = "s" THEN 1 + CountS(Tail(s)) ELSE 0

PatternMatchLen(s) ==
    IF s # <<>> /\ Head(s) = BSL /\ CountS(Tail(s)) > 0
    THEN 1 + CountS(Tail(s))
    ELSE 0

RECURSIVE ReplaceAll(_)
ReplaceAll(s) ==
    IF s = <<>> THEN <<>>
    ELSE IF PatternMatchLen(s) > 0
         THEN ReplaceAll(SubSeq(s, PatternMatchLen(s) + 1, Len(s)))
         ELSE <<Head(s)>> \o ReplaceAll(Tail(s))

\* Spark SQL regexp_replace(col, r"\\s+", ""): every match removed; null
\* stays null.
regexp_replace(c) == IF IsNull(c) THEN Null ELSE Some(ReplaceAll(Get(c)))

RECURSIVE DigitsValue(_, _)
DigitsValue(s, acc) ==
    IF s = <<>> THEN acc ELSE DigitsValue(Tail(s), 10 * acc + DigitVal(Head(s)))

AllAsciiDigits(s) == s # <<>> /\ \A k \in 1..Len(s) : s[k] \in AsciiDigits

\* Spark SQL cast(string as int) and cast(string as double) on integer
\* numerals: surrounding whitespace is ignored, an optional sign, then
\* decimal digits 0..9; anything else casts to null.  The numerals of the
\* model are integers, which a double holds exactly.
ParseNumber(s) ==
    LET t == Strip(s)
    IN  IF t # <<>> /\ Head(t) = "-" /\ AllAsciiDigits(Tail(t))
        THEN Some(0 - DigitsValue(Tail(t), 0))
        ELSE IF AllAsciiDigits(t) THEN Some(DigitsValue(t, 0)) ELSE Null

cast(c) == IF IsNull(c) THEN Null ELSE ParseNumber(Get(c))

Abs(n) == IF n < 0 THEN 0 - n ELSE n

(***************************************************************************)
(* The column names and file-name fragments the program spells out.        *)
(***************************************************************************)
S_year == <<"y", "e", "a", "r">>

S_Year == <<"Y", "e", "a", "r">>

S_value == <<"v", "a", "l", "u", "e">>

S_val == <<"v", "a", "l">>

S_population == <<"p", "o", "p", "u", "l", "a", "t", "i", "o", "n">>

S_pop == <<"p", "o", "p">>

S_gdp == <<"g", "d", "p">>

S_gross == <<"g", "r", "o", "s", "s">>

S_country == <<"c", "o", "u", "n", "t", "r", "y">>

S_country_name == S_country \o <<"_", "n", "a", "m", "e">>

S_country_code == S_country \o <<"_", "c", "o", "d", "e">>

S_Country_Name == <<"C", "o", "u", "n", "t", "r", "y", " ", "N", "a", "m", "e">>

S_Country_Code == <<"C", "o", "u", "n", "t", "r", "y", " ", "C", "o", "d", "e">>

\* The id_vars_default argument of every call of read_and_normalize.
id_vars_default == <<S_Country_Name, S_Country_Code>>

(***************************************************************************)
(* Exceptions: a call either raises or returns a value.                    *)
(***************************************************************************)
Raise == [exc |-> TRUE]

Ok(v) == [exc |-> FALSE, val |-> v]

(***************************************************************************)
(* The DataFrame operations the script uses.  Spark resolves column names  *)
(* case-insensitively; a name that matches no column, or more than one,    *)
(* raises AnalysisException when the DataFrame is built.                   *)
(***************************************************************************)
Range(f) == {f[k] : k \in DOMAIN f}

Matches(df, name) == {k \in 1..Len(df.cols) : Lower(df.cols[k]) = Lower(name)}

Resolves(df, name) == Cardinality(Matches(df, name)) = 1

ColIndex(df, name) == CHOOSE k \in Matches(df, name) : TRUE

\* df.withColumnRenamed(old, new): every column the resolver matches is renamed.
withColumnRenamed(df, old, new) ==
    [df EXCEPT !.cols = [k \in 1..Len(df.cols) |->
        IF Lower(df.cols[k]) = Lower(old) THEN new ELSE df.cols[k]]]

\* The column expressions the script builds on a column c.
Expr(f, c) ==
    CASE f = "trim" -> trim(c)
      [] f = "trim(regexp_replace)" -> trim(regexp_replace(c))
      [] f = "cast" -> cast(c)

\* df.withColumn(name, f(col(name))): the column is replaced in place.
withColumn(df, name, f) ==
    IF ~Resolves(df, name) THEN Raise
    ELSE LET c == ColIndex(df, name)
         IN  Ok([cols |-> [df.cols EXCEPT ![c] = name],
                 rows |-> [r \in 1..Len(df.rows) |->
                             [df.rows[r] EXCEPT ![c] = Expr(f, df.rows[r][c])]]])

\* df.filter(col(name).isNotNull())
filterNotNull(df, name) ==
    IF ~Resolves(df, name) THEN Raise
    ELSE LET c == ColIndex(df, name)
             Keep(row) == ~IsNull(row[c])
         IN  Ok([df EXCEPT !.rows = SelectSeq(df.rows, Keep)])

RECURSIVE Flatten(_)
Flatten(ss) == IF ss = <<>> THEN <<>> ELSE Head(ss) \o Flatten(Tail(ss))

(***************************************************************************)
(* wide_to_long, lines 28-42.                                              *)
(***************************************************************************)
\* Line 31: a column is a year column when its stripped name isdigit() and
\* has length 4.
IsYearCol(c) == IsDigit(Strip(c)) /\ Len(Strip(c)) = 4

year_cols(cols) == SelectSeq(cols, IsYearCol)

\* A reshaper that leaves out the cells that are null.
stack_not_null(df, id_vars, ycs) ==
    LET Ids(row) == [k \in 1..Len(id_vars) |-> row[ColIndex(df, id_vars[k])]]
        Stack(row) ==
            LET Has(y) == ~IsNull(row[ColIndex(df, y)])
                ys == SelectSeq(ycs, Has)
            IN  [y \in 1..Len(ys) |-> Ids(row) \o <<Some(ys[y]), row[ColIndex(df, ys[y])]>>]
    IN  Flatten([r \in 1..Len(df.rows) |-> Stack(df.rows[r])])

\* Lines 34-41: the rows of selectExpr(id columns, stack(n, 'y1', `y1`, ...)
\* as (year, value)): for every row, one row per year column, in column order.
stack(df, id_vars, ycs) ==
    LET Ids(row) == [k \in 1..Len(id_vars) |-> row[ColIndex(df, id_vars[k])]]
        Stack(row) == [y \in 1..Len(ycs) |->
            Ids(row) \o <<Some(ycs[y]), row[ColIndex(df, ycs[y])]>>]
    IN  Flatten([r \in 1..Len(df.rows) |-> Stack(df.rows[r])])

\* Returns Raise, Ok(Null) (Python's None) or Ok(Some(long)).
wide_to_long(df, id_vars) ==
    LET ycs == year_cols(df.cols)
    IN  IF ycs = <<>> THEN Ok(Null)
        ELSE IF \E k \in 1..Len(id_vars) : ~Resolves(df, id_vars[k]) THEN Raise
        ELSE IF \E k \in 1..Len(ycs) : ~Resolves(df, ycs[k]) THEN Raise
        ELSE Ok(Some([cols |-> id_vars \o <<S_year, S_value>>,
                      rows |-> stack(df, id_vars, ycs)]))

(***************************************************************************)
(* read_and_normalize, lines 44-94.                                        *)
(***************************************************************************)
\* Lines 48-49: every column renamed to its stripped name, one at a time.
RECURSIVE StripColumns(_, _)
StripColumns(df, names) ==
    IF names = <<>> THEN df
    ELSE StripColumns(withColumnRenamed(df, Head(names), Strip(Head(names))), Tail(names))

\* Lines 52-53.
IsLong(cols) == \E k \in 1..Len(cols) : Lower(cols[k]) = S_year

\* Lines 56-65: the value column of a long table.
ValueNames(expected_measure) == {S_value, Lower(expected_measure), S_val}

IdNames == {Lower(S_Country_Name), S_country, Lower(S_Country_Code), S_year}

\* A search from the front of the column list.
value_col_forward(cols, expected_measure) ==
    LET hits == {k \in 1..Len(cols) : Lower(cols[k]) \in ValueNames(expected_measure)}
        NotId(c) == Lower(c) \notin IdNames
        non_id == SelectSeq(cols, NotId)
    IN  IF hits # {} THEN cols[CHOOSE k \in hits : \A j \in hits : k <= j]
        ELSE IF non_id # <<>> THEN non_id[Len(non_id)]
        ELSE cols[Len(cols)]

value_col(cols, expected_measure) ==
    LET hits == {k \in 1..Len(cols) : Lower(cols[k]) \in ValueNames(expected_measure)}
        NotId(c) == Lower(c) \notin IdNames
        non_id == SelectSeq(cols, NotId)
    IN  IF hits # {} THEN cols[CHOOSE k \in hits : \A j \in hits : j <= k]
        ELSE IF non_id # <<>> THEN non_id[Len(non_id)]
        ELSE cols[Len(cols)]

\* Lines 66-70: the projection of a long table.
LongSelect(df, expected_measure) ==
    LET vc == value_col(df.cols, expected_measure)
    IN  IF \/ ~Resolves(df, S_Country_Name) \/ ~Resolves(df, S_Country_Code)
           \/ ~Resolves(df, S_Year) \/ ~Resolves(df, vc)
        THEN Raise
        ELSE Ok([cols |-> <<S_country_name, S_country_code, S_year, expected_measure>>,
                 rows |-> [r \in 1..Len(df.rows) |->
                    <<df.rows[r][ColIndex(df, S_Country_Name)],
                      df.rows[r][ColIndex(df, S_Country_Code)],
                      cast(df.rows[r][ColIndex(df, S_Year)]),
                      cast(df.rows[r][ColIndex(df, vc)])>>]])

\* Line 73, and the fallback of lines 74-76.
IsDefaultId(c) == \E k \in 1..Len(id_vars_default) : Lower(c) = Lower(id_vars_default[k])

IdVars(cols) ==
    IF SelectSeq(cols, IsDefaultId) # <<>> THEN SelectSeq(cols, IsDefaultId)
    ELSE SubSeq(cols, 1, IF Len(cols) < 2 THEN Len(cols) ELSE 2)

\* Lines 81-89: rename_map is a dict; with one identifier column the second
\* assignment (line 87) overwrites the first (line 86).
RenameIds(long, id_vars) ==
    IF Len(id_vars) >= 2
    THEN IF id_vars[1] = id_vars[2]
         THEN withColumnRenamed(long, id_vars[1], S_country_code)
         ELSE withColumnRenamed(withColumnRenamed(long, id_vars[1], S_country_name),
                                id_vars[2], S_country_code)
    ELSE withColumnRenamed(long, id_vars[1], S_country_code)

\* Lines 91-93.
CastYearValue(long, expected_measure) ==
    LET a == withColumn(long, S_year, "cast")
    IN  IF a.exc THEN Raise
        ELSE withColumn(withColumnRenamed(a.val, S_value, expected_measure),
                        expected_measure, "cast")

\* Lines 72-94: the projection of a wide table.
WideSelect(df, expected_measure) ==
    LET id_vars == IdVars(df.cols)
        long == wide_to_long(df, id_vars)
    IN  IF long.exc \/ IsNull(long.val) THEN Raise
        ELSE CastYearValue(RenameIds(Get(long.val), id_vars), expected_measure)

\* The argument is the table that spark.read.csv gives (line 46).
read_and_normalize(raw, expected_measure) ==
    LET df == StripColumns(raw, raw.cols)
    IN  IF IsLong(df.cols) THEN LongSelect(df, expected_measure)
        ELSE WideSelect(df, expected_measure)

(***************************************************************************)
(* simple_clean, lines 96-105.                                             *)
(***************************************************************************)
simple_clean(df, measure_name) ==
    LET a == withColumn(df, S_country_name, "trim")
    IN  IF a.exc THEN Raise
        ELSE LET b == IF S_country_code \in Range(a.val.cols)
                      THEN withColumn(a.val, S_country_code, "trim(regexp_replace)")
                      ELSE a
             IN  IF b.exc THEN Raise
                 ELSE LET c == filterNotNull(b.val, S_year)
                      IN  IF c.exc THEN Raise
                          ELSE IF measure_name \in Range(c.val.cols)
                               THEN filterNotNull(c.val, measure_name)
                               ELSE c

(***************************************************************************)
(* The measure heuristic of main, lines 132-139.                           *)
(***************************************************************************)
\* tmp.limit(100).collect()
Sample(tmp) ==
    SubSeq(tmp.rows, 1, IF Len(tmp.rows) < SampleLimit THEN Len(tmp.rows) ELSE SampleLimit)

\* Line 136: r[3] of every sampled row, the nulls left out.
HasValue(r) == ~IsNull(r[4])

Vals(sample) == SelectSeq(sample, HasValue)

RECURSIVE SumAbs(_)
SumAbs(rows) ==
    IF rows = <<>> THEN 0 ELSE Abs(Get(Head(rows)[4])) + SumAbs(Tail(rows))

\* A comparison that takes a mean equal to the threshold as large.
AvgIsLarge_ge(vals) ==
    /\ vals # <<>>
    /\ SumAbs(vals) # 0
    /\ SumAbs(vals) >= Threshold * Len(vals)

\* Line 139: avg is None unless a value was sampled; `avg and avg > 1e6`
\* with avg = SumAbs / Len, compared without the division.
AvgIsLarge(vals) ==
    /\ vals # <<>>
    /\ SumAbs(vals) # 0
    /\ SumAbs(vals) > Threshold * Len(vals)

\* Raise is the IndexError of r[3] on a row of fewer than four fields.
auto_detect(tmp) ==
    LET sample == Sample(tmp)
    IN  IF sample # <<>> /\ Len(tmp.cols) < 4 THEN Raise
        ELSE IF AvgIsLarge(Vals(sample)) THEN Ok(S_population)
        ELSE Ok(S_gdp)

(***************************************************************************)
(* The join and the de-duplication of main, lines 162-184.                 *)
(***************************************************************************)
coalesce(a, b) == IF IsNull(a) THEN b ELSE a

\* The canonical columns resolve in df (each by exactly one column).
HasColumns(df, names) == \A k \in 1..Len(names) : Resolves(df, names[k])

Cell(df, row, name) == row[ColIndex(df, name)]

\* The join condition of on=["country_code", "year"]: SQL equality, which a
\* null on either side never satisfies.
KeysMatch(p, pr, g, gr) ==
    /\ ~IsNull(Cell(p, pr, S_country_code))
    /\ Cell(p, pr, S_country_code) = Cell(g, gr, S_country_code)
    /\ ~IsNull(Cell(p, pr, S_year))
    /\ Cell(p, pr, S_year) = Cell(g, gr, S_year)

OutCols == <<S_country_name, S_country_code, S_year, S_population, S_gdp>>

\* A join with how="left": the gdp rows without a partner are lost.
LeftJoin(p, g) ==
    LET Both(pr, gr) ==
            <<coalesce(Cell(p, pr, S_country_name), Cell(g, gr, S_country_name)),
              coalesce(Cell(p, pr, S_country_code), Cell(g, gr, S_country_code)),
              coalesce(Cell(p, pr, S_year), Cell(g, gr, S_year)),
              Cell(p, pr, S_population), Cell(g, gr, S_gdp)>>
        LeftOnly(pr) ==
            <<Cell(p, pr, S_country_name), Cell(p, pr, S_country_code),
              Cell(p, pr, S_year), Cell(p, pr, S_population), Null>>
        PartnersOf(pr) ==
            LET M(gr) == KeysMatch(p, pr, g, gr) IN SelectSeq(g.rows, M)
        FromLeft(pr) ==
            IF PartnersOf(pr) = <<>> THEN <<LeftOnly(pr)>>
            ELSE [k \in 1..Len(PartnersOf(pr)) |-> Both(pr, PartnersOf(pr)[k])]
    IN  Flatten([k \in 1..Len(p.rows) |-> FromLeft(p.rows[k])])

\* Lines 163-170: the full outer join and its projection.
OuterJoin(p, g) ==
    LET Both(pr, gr) ==
            <<coalesce(Cell(p, pr, S_country_name), Cell(g, gr, S_country_name)),
              coalesce(Cell(p, pr, S_country_code), Cell(g, gr, S_country_code)),
              coalesce(Cell(p, pr, S_year), Cell(g, gr, S_year)),
              Cell(p, pr, S_population), Cell(g, gr, S_gdp)>>
        LeftOnly(pr) ==
            <<Cell(p, pr, S_country_name), Cell(p, pr, S_country_code),
              Cell(p, pr, S_year), Cell(p, pr, S_population), Null>>
        RightOnly(gr) ==
            <<Cell(g, gr, S_country_name), Cell(g, gr, S_country_code),
              Cell(g, gr, S_year), Null, Cell(g, gr, S_gdp)>>
        PartnersOf(pr) ==
            LET M(gr) == KeysMatch(p, pr, g, gr) IN SelectSeq(g.rows, M)
        FromLeft(pr) ==
            IF PartnersOf(pr) = <<>> THEN <<LeftOnly(pr)>>
            ELSE [k \in 1..Len(PartnersOf(pr)) |-> Both(pr, PartnersOf(pr)[k])]
        Unmatched(gr) == \A k \in 1..Len(p.rows) : ~KeysMatch(p, p.rows[k], g, gr)
        Rest == SelectSeq(g.rows, Unmatched)
    IN  Flatten([k \in 1..Len(p.rows) |-> FromLeft(p.rows[k])])
            \o [k \in 1..Len(Rest) |-> RightOnly(Rest[k])]

\* Lines 162-177: Raise is the AnalysisException of a column that does not
\* resolve; Ok(Null) is joined = None.
Join(pop, gdp) ==
    IF ~IsNull(pop) /\ ~IsNull(gdp)
    THEN IF /\ HasColumns(Get(pop), <<S_country_name, S_country_code, S_year, S_population>>)
            /\ HasColumns(Get(gdp), <<S_country_name, S_country_code, S_year, S_gdp>>)
         THEN Ok(Some([cols |-> OutCols, rows |-> OuterJoin(Get(pop), Get(gdp))]))
         ELSE Raise
    ELSE IF ~IsNull(pop)
    THEN IF HasColumns(Get(pop), <<S_country_name, S_country_code, S_year, S_population>>)
         THEN LET p == Get(pop)
              IN  Ok(Some([cols |-> OutCols,
                           rows |-> [k \in 1..Len(p.rows) |->
                              <<Cell(p, p.rows[k], S_country_name),
                                Cell(p, p.rows[k], S_country_code),
                                Cell(p, p.rows[k], S_year),
                                Cell(p, p.rows[k], S_population), Null>>]]))
         ELSE Raise
    ELSE IF ~IsNull(gdp)
    THEN IF HasColumns(Get(gdp), <<S_country_name, S_country_code, S_year, S_gdp>>)
         THEN LET g == Get(gdp)
              IN  Ok(Some([cols |-> OutCols,
                           rows |-> [k \in 1..Len(g.rows) |->
                              <<Cell(g, g.rows[k], S_country_name),
                                Cell(g, g.rows[k], S_country_code),
                                Cell(g, g.rows[k], S_year),
                                Null, Cell(g, g.rows[k], S_gdp)>>]]))
         ELSE Raise
    ELSE Ok(Null)

\* The key of a row of the joined table.
Key(row) == <<row[2], row[3]>>

RECURSIVE Pick(_, _, _)
Pick(rows, keep, k) ==
    IF k > Len(rows) THEN <<>>
    ELSE (IF k \in keep THEN <<rows[k]>> ELSE <<>>) \o Pick(rows, keep, k + 1)

\* The groups of positions whose rows have equal keys (nulls are equal to
\* each other in a grouping).
Groups(rows) ==
    {{k \in 1..Len(rows) : Key(rows[k]) = Key(rows[j])} : j \in 1..Len(rows)}

\* The sets that hold one position of every group.
RECURSIVE OneOfEach(_)
OneOfEach(groups) ==
    IF groups = {} THEN {{}}
    ELSE LET g == CHOOSE x \in groups : TRUE
         IN  {keep \cup {k} : keep \in OneOfEach(groups \ {g}), k \in g}

\* Line 184: dropDuplicates(["country_code", "year"]) keeps one row of every
\* group of equal keys; which row of a group is kept is not fixed by Spark.
\* keep is the set of kept positions.

dropDuplicates(df, keep) == [df EXCEPT !.rows = Pick(df.rows, keep, 1)]

(***************************************************************************)
(* The input files of the model: what list_csvs and spark.read.csv give.   *)
(***************************************************************************)
SeqsUpTo(S, n) == UNION {[1..k -> S] : k \in 0..n}

S_csv == <<".", "c", "s", "v">>

S_data == <<"d", "a", "t", "a">>

S_2020 == <<"2", "0", "2", "0">>

S_2021 == <<"2", "0", "2", "1">>

S_big == <<"2", "0", "0", "0", "0", "0", "0">>

LongCols == <<S_Country_Name, S_Country_Code, S_Year, <<"V", "a", "l", "u", "e">>>>

WideCols == <<S_Country_Name, <<" ">> \o S_Country_Code, S_2020, S_2021>>

\* A long population file: a duplicated key, a code with inner and outer
\* whitespace, a row whose year does not parse.
PopLong ==
    [name |-> <<"P", "o", "p">> \o S_csv,
     raw |-> [cols |-> LongCols,
              rows |-> << <<Some(<<"A", " ">>), Some(<<" ", "U", " ", "S">>), Some(S_2020), Some(<<"7">>)>>,
                          <<Some(<<"A">>), Some(<<" ", "U", " ", "S">>), Some(S_2020), Some(<<"8">>)>>,
                          <<Some(<<"B">>), Null, Some(<<"x">>), Some(<<"9">>)>> >>]]

\* A wide gdp file with a cell that is not a number.
GdpWide ==
    [name |-> S_gdp \o S_csv,
     raw |-> [cols |-> WideCols,
              rows |-> << <<Some(<<"A">>), Some(<<" ", "U", " ", "S">>), Some(<<"5">>), Some(<<"x">>)>>,
                          <<Some(<<"B">>), Null, Some(<<"6">>), Null>> >>]]

\* Files without a measure in their name.
AutoBig ==
    [name |-> S_data \o S_csv,
     raw |-> [cols |-> LongCols,
              rows |-> << <<Some(<<"C">>), Some(<<"C">>), Some(S_2021), Some(S_big)>> >>]]

AutoSmall ==
    [name |-> S_data \o S_csv,
     raw |-> [cols |-> WideCols,
              rows |-> << <<Some(<<"C">>), Some(<<"C">>), Some(<<"-", "3">>), Null>> >>]]

\* Wide files with a single identifier column.
PopOneId ==
    [name |-> S_population \o S_csv,
     raw |-> [cols |-> <<S_Country_Name, S_2020>>,
              rows |-> << <<Some(<<"A">>), Some(<<"x">>)>> >>]]

GrossOneId ==
    [name |-> S_gross \o S_csv,
     raw |-> [cols |-> <<S_Country_Code, S_2020>>,
              rows |-> << <<Some(<<"A">>), Some(<<"4">>)>> >>]]

AutoOneId ==
    [name |-> S_data \o S_csv,
     raw |-> [cols |-> <<S_Country_Code, S_2021>>,
              rows |-> << <<Some(<<"A">>), Some(S_big)>> >>]]

AutoOneIdEmpty ==
    [name |-> S_data \o S_csv,
     raw |-> [cols |-> <<S_Country_Code, S_2021>>, rows |-> <<>>]]

\* Neither a year column nor year-like columns.
NoShape ==
    [name |-> S_pop \o S_csv,
     raw |-> [cols |-> <<S_Country_Name, S_Country_Code>>,
              rows |-> << <<Some(<<"A">>), Some(<<"A">>)>> >>]]

\* A long file without the Country Code column.
NoCode ==
    [name |-> S_gdp \o S_csv,
     raw |-> [cols |-> <<S_Country_Name, S_Year, S_value>>,
              rows |-> << <<Some(<<"A">>), Some(S_2020), Some(<<"5">>)>> >>]]

\* The paths that list_csvs returns, and the file behind each path.
Paths ==
    {"PopLong", "GdpWide", "AutoBig", "AutoSmall", "PopOneId", "GrossOneId",
     "AutoOneId", "AutoOneIdEmpty", "NoShape", "NoCode"}

File(p) ==
    CASE p = "PopLong" -> PopLong
      [] p = "GdpWide" -> GdpWide
      [] p = "AutoBig" -> AutoBig
      [] p = "AutoSmall" -> AutoSmall
      [] p = "PopOneId" -> PopOneId
      [] p = "GrossOneId" -> GrossOneId
      [] p = "AutoOneId" -> AutoOneId
      [] p = "AutoOneIdEmpty" -> AutoOneIdEmpty
      [] p = "NoShape" -> NoShape
      [] p = "NoCode" -> NoCode

(***************************************************************************)
(* main, lines 107-191.                                                    *)
(***************************************************************************)
\* Lines 121-122 (and 125-126, 140-141, 144-145): the slot is assigned the
\* normalized table, then assigned again the cleaned one; an exception
\* between the two leaves the first assignment in place.
CleanInto(normalized, measure) ==
    LET c == simple_clean(normalized, measure)
    IN  IF c.exc THEN [slot |-> Some(normalized), ok |-> FALSE]
        ELSE [slot |-> Some(c.val), ok |-> TRUE]

Load(raw, measure, old) ==
    LET n == read_and_normalize(raw, measure)
    IN  IF n.exc THEN [slot |-> old, ok |-> FALSE] ELSE CleanInto(n.val, measure)

Entry(f, measure, r) ==
    [file |-> f,
     outcome |-> IF r.ok THEN measure ELSE "skipped",
     df |-> IF r.ok THEN r.slot ELSE Null]

IsPopName(name) == Contains(name, S_pop) \/ Contains(name, S_population)

IsGdpName(name) == Contains(name, S_gdp) \/ Contains(name, S_gross)

PipelineIdle ==
    /\ csvs = <<>> /\ i = 0 /\ pop_df = Null /\ gdp_df = Null
    /\ joined = Null /\ summary = <<>>

Init ==
    /\ csvs \in SeqsUpTo(Paths, MaxFiles)
    /\ i = 1
    /\ pop_df = Null
    /\ gdp_df = Null
    /\ joined = Null
    /\ pc = "loop"
    /\ summary = <<>>
    /\ arg = Null
    /\ res = Null

\* Lines 110-112.
NoCsvFiles ==
    /\ pc = "loop"
    /\ csvs = <<>>
    /\ pc' = "no_csv"
    /\ UNCHANGED <<csvs, i, pop_df, gdp_df, joined, summary, arg, res>>

\* Lines 120-123, with the handler of lines 147-148.
LoadPopulation ==
    /\ pc = "loop"
    /\ i <= Len(csvs)
    /\ IsPopName(Lower(File(csvs[i]).name))
    /\ LET r == Load(File(csvs[i]).raw, S_population, pop_df)
       IN  /\ pop_df' = r.slot
           /\ summary' = Append(summary, Entry(i, "population", r))
    /\ i' = i + 1
    /\ UNCHANGED <<csvs, gdp_df, joined, pc, arg, res>>

\* Lines 124-127, with the handler of lines 147-148.
LoadGdp ==
    /\ pc = "loop"
    /\ i <= Len(csvs)
    /\ ~IsPopName(Lower(File(csvs[i]).name))
    /\ IsGdpName(Lower(File(csvs[i]).name))
    /\ LET r == Load(File(csvs[i]).raw, S_gdp, gdp_df)
       IN  /\ gdp_df' = r.slot
           /\ summary' = Append(summary, Entry(i, "gdp", r))
    /\ i' = i + 1
    /\ UNCHANGED <<csvs, pop_df, joined, pc, arg, res>>

\* Lines 128-146, with the handler of lines 147-148.
AutoDetect ==
    /\ pc = "loop"
    /\ i <= Len(csvs)
    /\ ~IsPopName(Lower(File(csvs[i]).name))
    /\ ~IsGdpName(Lower(File(csvs[i]).name))
    /\ LET tmp == read_and_normalize(File(csvs[i]).raw, S_value)
           d == auto_detect(tmp.val)
           Skip == [slot |-> Null, ok |-> FALSE]
       IN  IF tmp.exc \/ d.exc
           THEN /\ summary' = Append(summary, Entry(i, "skipped", Skip))
                /\ UNCHANGED <<pop_df, gdp_df>>
           ELSE IF d.val = S_population
           THEN LET r == CleanInto(withColumnRenamed(tmp.val, S_value, S_population),
                                   S_population)
                IN  /\ pop_df' = r.slot
                    /\ summary' = Append(summary, Entry(i, "population", r))
                    /\ UNCHANGED gdp_df
           ELSE LET r == CleanInto(withColumnRenamed(tmp.val, S_value, S_gdp), S_gdp)
                IN  /\ gdp_df' = r.slot
                    /\ summary' = Append(summary, Entry(i, "gdp", r))
                    /\ UNCHANGED pop_df
    /\ i' = i + 1
    /\ UNCHANGED <<csvs, joined, pc, arg, res>>

\* Lines 150-181, after the last file: the join, or the single table, or
\* nothing to write; an exception here is not caught.
JoinTables ==
    /\ pc = "loop"
    /\ csvs # <<>>
    /\ i > Len(csvs)
    /\ LET j == Join(pop_df, gdp_df)
       IN  IF j.exc THEN pc' = "aborted" /\ UNCHANGED joined
           ELSE IF IsNull(j.val) THEN pc' = "nothing" /\ UNCHANGED joined
           ELSE pc' = "joined" /\ joined' = j.val
    /\ UNCHANGED <<csvs, i, pop_df, gdp_df, summary, arg, res>>

\* Lines 183-191.
DropDuplicatesAndWrite ==
    /\ pc = "joined"
    /\ \E keep \in OneOfEach(Groups(Get(joined).rows)) :
          joined' = Some(dropDuplicates(Get(joined), keep))
    /\ pc' = "written"
    /\ UNCHANGED <<csvs, i, pop_df, gdp_df, summary, arg, res>>

Next ==
    \/ NoCsvFiles
    \/ LoadPopulation
    \/ LoadGdp
    \/ AutoDetect
    \/ JoinTables
    \/ DropDuplicatesAndWrite

Spec == Init /\ [][Next]_vars

(***************************************************************************)
(* The stages taken alone: an input drawn in the initial state, the stage  *)
(* applied to it by one action.                                            *)
(***************************************************************************)
Pipeline == <<csvs, i, pop_df, gdp_df, joined, summary>>

Apply(out) ==
    /\ pc = "input"
    /\ res' = out
    /\ pc' = "output"
    /\ UNCHANGED <<Pipeline, arg>>

\* --- Shape detection: the header of a file, lines 48-53 and 28-33, 78-79.
HeaderNames ==
    {S_Year, <<" ">> \o S_year, <<"Y", "E", "A", "R", " ">>, S_year \o <<"s">>,
     S_2020, <<" ">> \o S_2021 \o <<TAB>>, <<"2", "0", "2">>, S_2020 \o <<"1">>,
     <<"2", "o", "2", "0">>, <<"2", " ", "0", "2">>, <<SUP2, SUP2, SUP2, SUP2>>,
     S_Country_Name, <<"x">>}

HeaderOnly(cols) == [cols |-> cols, rows |-> <<>>]

InitShape ==
    /\ PipelineIdle
    /\ pc = "input"
    /\ arg \in SeqsUpTo(HeaderNames, MaxCols) \ {<<>>}
    /\ res = Null

DetectShape ==
    LET df == StripColumns(HeaderOnly(arg), arg)
    IN  Apply([long |-> IsLong(df.cols),
               years |-> year_cols(df.cols),
               skipped |-> read_and_normalize(HeaderOnly(arg), S_value).exc])

SpecShape == InitShape /\ [][DetectShape]_vars

\* --- Reshaping: wide_to_long on a wide table and its identifier columns.
WideHeaders ==
    {<<S_Country_Name, S_Country_Code, S_2020, S_2021>>,
     <<S_2020, S_Country_Code, S_2021>>,
     <<S_Country_Name, S_2020>>,
     <<<<"x">>, <<"z">>, S_2021>>}

CellValues == {Null, Some(<<"1">>)}

WideTables ==
    UNION {[cols : {h}, rows : SeqsUpTo([1..Len(h) -> CellValues], MaxRows)] : h \in WideHeaders}

InitReshape ==
    /\ PipelineIdle
    /\ pc = "input"
    /\ \E df \in WideTables :
          \E id_vars \in {IdVars(df.cols), <<df.cols[1]>>, <<df.cols[2], df.cols[1]>>} :
             arg = [df |-> df, id_vars |-> id_vars]
    /\ res = Null

Reshape == Apply(wide_to_long(arg.df, arg.id_vars))

SpecReshape == InitReshape /\ [][Reshape]_vars

\* --- Classification: the heuristic on a normalized table, lines 130-139.
ValueCols == <<S_country_name, S_country_code, S_year, S_value>>

SampleValues ==
    {Null, Some(0), Some(Threshold - 1), Some(Threshold), Some(Threshold + 1),
     Some(0 - 2 * Threshold), Some(3 * Threshold)}

ValueRow(v) == <<Some(<<"A">>), Some(<<"A">>), Some(2020), v>>

Repeat(v, n) == [k \in 1..n |-> ValueRow(v)]

InitClassify ==
    /\ PipelineIdle
    /\ pc = "input"
    /\ \E a, b \in SampleValues :
          \E n \in {0, 1, SampleLimit - 1, SampleLimit} : \E m \in 0..MaxTail :
             arg = [cols |-> ValueCols, rows |-> Repeat(a, n) \o Repeat(b, m)]
    /\ res = Null

Classify == Apply(auto_detect(arg))

SpecClassify == InitClassify /\ [][Classify]_vars

\* --- Cleaning: simple_clean on a normalized table.
CleanChars == {"A", " ", "s", BSL}

Strings == SeqsUpTo(CleanChars, MaxLen)

PopCols == <<S_country_name, S_country_code, S_year, S_population>>

InitClean ==
    /\ PipelineIdle
    /\ pc = "input"
    /\ \E code \in {Null} \cup {Some(c) : c \in Strings} :
          \E name \in {Null, Some(<<"A", " ", "B">>), Some(<<" ", "A", " ">>)} :
             \E year \in {Null, Some(2020)} : \E v \in {Null, Some(1)} :
                arg = [cols |-> PopCols, rows |-> << <<name, code, year, v>> >>]
    /\ res = Null

Clean == Apply(simple_clean(arg, S_population))

SpecClean == InitClean /\ [][Clean]_vars

\* --- The value column of a long table, lines 56-65.
LongNames ==
    {S_Year, S_value, <<"V", "a", "l", "u", "e">>, <<"V", "A", "L">>, S_population,
     S_Country_Name, <<"G", "D", "P">>, <<"x">>}

InitValueCol ==
    /\ PipelineIdle
    /\ pc = "input"
    /\ \E cols \in SeqsUpTo(LongNames, MaxCols) : \E m \in {S_population, S_gdp, S_value} :
          /\ IsLong(cols)
          /\ arg = [cols |-> cols, expected_measure |-> m]
    /\ res = Null

ChooseValueCol == Apply(value_col(arg.cols, arg.expected_measure))

SpecValueCol == InitValueCol /\ [][ChooseValueCol]_vars

\* --- The merger: two cleaned measure tables, lines 162-184.
GdpCols == <<S_country_name, S_country_code, S_year, S_gdp>>

MergeKeys ==
    {<<Null, Some(2020)>>, <<Some(<<"A">>), Some(2020)>>, <<Some(<<"A">>), Some(2021)>>}

PopRows == {<<Some(<<"P">>), k[1], k[2], Some(1)>> : k \in MergeKeys}

GdpRows == {<<Some(<<"G">>), k[1], k[2], Some(5)>> : k \in MergeKeys}

InitMerge ==
    /\ PipelineIdle
    /\ pc = "input"
    /\ \E p \in SeqsUpTo(PopRows, MaxRows) : \E g \in SeqsUpTo(GdpRows, MaxRows) :
          arg = [pop |-> [cols |-> PopCols, rows |-> p],
                 gdp |-> [cols |-> GdpCols, rows |-> g]]
    /\ res = Null

MergeJoin ==
    /\ pc = "input"
    /\ res' = Get(Join(Some(arg.pop), Some(arg.gdp)).val)
    /\ pc' = "joined"
    /\ UNCHANGED <<Pipeline, arg>>

MergeDropDuplicates ==
    /\ pc = "joined"
    /\ \E keep \in OneOfEach(Groups(res.rows)) :
          res' = dropDuplicates(res, keep)
    /\ pc' = "output"
    /\ UNCHANGED <<Pipeline, arg>>

SpecMerge == InitMerge /\ [][MergeJoin \/ MergeDropDuplicates]_vars

(***************************************************************************)
(* The properties.                                                         *)
(***************************************************************************)
Min(a, b) == IF a < b THEN a ELSE b

RECURSIVE SetSum(_, _)
SetSum(S, rows) ==
    IF S = {} THEN 0
    ELSE LET k == CHOOSE x \in S : TRUE
         IN  Abs(Get(rows[k][4])) + SetSum(S \ {k}, rows)

KeysOf(rows) == {<<rows[k][2], rows[k][3]>> : k \in 1..Len(rows)}

\* C1: merge completeness and uniqueness.  For two cleaned measure tables
\* (duplicate keys and null country codes included), every (country_code,
\* year) pair of either table is the key of exactly one merged row, no two
\* merged rows share a key, and in the row of a key the measure of a side
\* that has no row with that key is null.
C1_MergeCompleteUnique ==
    pc = "output" =>
        LET popKeys == KeysOf(arg.pop.rows)
            gdpKeys == KeysOf(arg.gdp.rows)
            out == res.rows
            RowsWith(key) == {k \in 1..Len(out) : Key(out[k]) = key}
        IN  /\ \A key \in popKeys \cup gdpKeys : Cardinality(RowsWith(key)) = 1
            /\ \A j, k \in 1..Len(out) : j # k => Key(out[j]) # Key(out[k])
            /\ \A key \in popKeys \cup gdpKeys : \A k \in RowsWith(key) :
                  /\ key \notin popKeys => IsNull(out[k][4])
                  /\ key \notin gdpKeys => IsNull(out[k][5])

\* A merge of a population table that repeats a key with a null country
\* code, and a gdp table that has this key and a key of its own.
C1_Witness ==
    /\ pc = "output"
    /\ Len(arg.pop.rows) = 2
    /\ arg.pop.rows[1] = arg.pop.rows[2]
    /\ IsNull(arg.pop.rows[1][2])
    /\ <<arg.pop.rows[1][2], arg.pop.rows[1][3]>> \in KeysOf(arg.gdp.rows)
    /\ KeysOf(arg.gdp.rows) \ KeysOf(arg.pop.rows) # {}
    /\ Len(res.rows) = 2

FourDecimalDigits(c) ==
    /\ Len(Strip(c)) = 4
    /\ \A k \in 1..4 : Strip(c)[k] \in AsciiDigits

\* C3: shape detection.  A header is long format if some column's trimmed
\* lowercase name is "year"; otherwise wide format with exactly the columns
\* whose trimmed name is four decimal digits, if there is one; otherwise the
\* file is skipped.
C3_ShapeDetection ==
    pc = "output" =>
        LET HasYear == \E k \in 1..Len(arg) : Lower(Strip(arg[k])) = S_year
            YearLike == {Strip(arg[k]) : k \in {j \in 1..Len(arg) : FourDecimalDigits(arg[j])}}
        IN  /\ res.long <=> HasYear
            /\ ~HasYear => Range(res.years) = YearLike
            /\ ~HasYear /\ YearLike = {} => res.skipped

YearPositions(cols) == {k \in 1..Len(cols) : IsYearCol(cols[k])}

Position(cols, name) == CHOOSE k \in 1..Len(cols) : cols[k] = name

\* The row that the input row a and the year column at position y stand for.
Expected(df, id_vars, a, y) ==
    [k \in 1..Len(id_vars) |-> df.rows[a][Position(df.cols, id_vars[k])]]
        \o <<Some(df.cols[y]), df.rows[a][y]>>

C5_Classification ==
    pc = "output" =>
        LET first == 1..Min(Len(arg.rows), SampleLimit)
            nonNull == {k \in first : ~IsNull(arg.rows[k][4])}
            large == /\ nonNull # {}
                     /\ SetSum(nonNull, arg.rows) > Threshold * Cardinality(nonNull)
        IN  /\ ~res.exc
            /\ res.val \in {S_population, S_gdp}
            /\ res.val = S_population <=> large

\* A hundred rows whose mean is the threshold, then a larger one: gdp.
C5_Witness ==
    /\ pc = "output"
    /\ Len(arg.rows) > SampleLimit
    /\ arg.rows[1][4] = Some(Threshold)
    /\ arg.rows[SampleLimit][4] = Some(Threshold)
    /\ arg.rows[SampleLimit + 1][4] = Some(3 * Threshold)
    /\ res.val = S_gdp

\* C6: whitespace stripping.  After simple_clean no surviving row's
\* country_code holds a whitespace character, leading, trailing or inner,
\* and country_name has no leading or trailing whitespace.
C6_NoWhitespace ==
    pc = "output" =>
        /\ ~res.exc
        /\ \A r \in 1..Len(res.val.rows) :
              LET name == res.val.rows[r][1]
                  code == res.val.rows[r][2]
              IN  /\ ~IsNull(code) => \A k \in 1..Len(Get(code)) : ~IsSpace(Get(code)[k])
                  /\ ~IsNull(name) /\ Get(name) # <<>> =>
                        /\ ~IsSpace(Get(name)[1])
                        /\ ~IsSpace(Get(name)[Len(Get(name))])

IdColumnNames == {Lower(S_Country_Name), S_country, Lower(S_Country_Code), S_year}

\* Where(cols, S): the positions of the columns whose lowercase name is in S.
Where(cols, S) == {k \in 1..Len(cols) : Lower(cols[k]) \in S}

\* n is the name of the rightmost of the (non-empty) positions hits.
IsRightmost(cols, n, hits) ==
    \E k \in hits :
        /\ cols[k] = n
        /\ \A j \in hits : j <= k

\* The fallback of C7, which the original and the amended claim share.
Fallback(cols, n) ==
    LET nonId == (1..Len(cols)) \ Where(cols, IdColumnNames)
    IN  IF nonId # {} THEN IsRightmost(cols, n, nonId) ELSE n = cols[Len(cols)]

\* C7 as stated: the value column is chosen by priority, "value" before the
\* measure name before "val" (the rightmost column of the best rank); with
\* no match, the last column that is not an identifier or year column;
\* with none, the last column.
C7_PriorityOrder ==
    pc = "output" =>
        LET cols == arg.cols
            value == Where(cols, {S_value})
            measure == Where(cols, {Lower(arg.expected_measure)})
            val == Where(cols, {S_val})
        IN  IF value # {} THEN IsRightmost(cols, res, value)
            ELSE IF measure # {} THEN IsRightmost(cols, res, measure)
            ELSE IF val # {} THEN IsRightmost(cols, res, val)
            ELSE Fallback(cols, res)

\* C7 as amended: the value column is the rightmost column whose lowercase
\* name is "value", the measure name or "val", whichever of the three it
\* is; with no match, the last column that is not an identifier or year
\* column; with none, the last column.
C7_RightmostMatch ==
    pc = "output" =>
        LET cols == arg.cols
            hits == Where(cols, {S_value, Lower(arg.expected_measure), S_val})
        IN  IF hits # {} THEN IsRightmost(cols, res, hits) ELSE Fallback(cols, res)

\* A "value" column with a "val" column to its right: "val" is chosen.
C7_Witness ==
    /\ pc = "output"
    /\ \E j, k \in 1..Len(arg.cols) :
          /\ j < k
          /\ Lower(arg.cols[j]) = S_value
          /\ Lower(arg.cols[k]) = S_val
          /\ k = Len(arg.cols)
    /\ Lower(res) = S_val

\* The file is wide and has exactly one identifier column.
OneIdWide(raw) ==
    LET cols == StripColumns(raw, raw.cols).cols
    IN  /\ ~IsLong(cols)
        /\ year_cols(cols) # <<>>
        /\ Len(IdVars(cols)) = 1

\* C8: a wide file with exactly one identifier column is not skipped: it is
\* normalized and cleaned into a table that has both a country_name and a
\* country_code column.
C8_SingleIdNotSkipped ==
    \A k \in 1..Len(summary) :
        OneIdWide(File(csvs[summary[k].file]).raw) =>
            /\ summary[k].outcome # "skipped"
            /\ Resolves(Get(summary[k].df), S_country_name)
            /\ Resolves(Get(summary[k].df), S_country_code)

\* The cleaned table of the last file that was processed as measure m.
LastOf(m) ==
    LET hits == {k \in 1..Len(summary) : summary[k].outcome = m}
    IN  IF hits = {} THEN Null
        ELSE summary[CHOOSE k \in hits : \A j \in hits : j <= k].df

IsCleaned(slot, measure) ==
    IsNull(slot) \/
        /\ Resolves(Get(slot), S_year)
        /\ Resolves(Get(slot), measure)
        /\ \A r \in 1..Len(Get(slot).rows) :
              /\ ~IsNull(Cell(Get(slot), Get(slot).rows[r], S_year))
              /\ ~IsNull(Cell(Get(slot), Get(slot).rows[r], measure))

====
